---- MODULE Spec2Model ----
(***************************************************************************)
(* Model of agency_swarm/util/settings_manager.py: the SettingsManager     *)
(* singleton, its process mutex (self._file_lock), the OS file lock taken  *)
(* by _acquire_file_lock, and load/save/update/delete over a JSON array    *)
(* file.  Threads run the methods statement by statement; the file system  *)
(* is a directory (name -> inode) over inodes holding serialized text.     *)
(***************************************************************************)
EXTENDS Integers, Sequences, FiniteSets, TLC

\* ---------------------------------------------------------------- bounds
NThreads == 2
MaxCalls == 2
RaceCalls == 1
MaxFaults == 1
MaxLen == 2

\* ------------------------------------------------------- program constants
MAX_RETRIES == 5

Threads == 1..NThreads
Procs == {1, 2}
\* one more thread, for the scenarios where a second process uses the file
Peer == NThreads + 1
Everyone == Threads \cup {Peer}
Nobody == 0
\* owner of an OS lock held by a process outside the model
External == -1

\* ------------------------------------------------------------------ data
Ids == {"a", "b"}
Vals == {"1", "2"}
Records == [id : Ids, v : Vals]

RECURSIVE SeqsUpTo(_)
SeqsUpTo(n) ==
  IF n = 0 THEN {<<>>}
  ELSE LET S == SeqsUpTo(n - 1)
       IN S \cup {Append(s, r) : s \in {x \in S : Len(x) = n - 1}, r \in Records}

Lists == SeqsUpTo(MaxLen)

\* paths: two with a directory part, one bare file name (os.path.dirname = "")
P1 == "d/s.json"
P2 == "d/t.json"
PBare == "s.json"
Paths == {P1, P2, PBare}
dirname(p) == IF p = PBare THEN "" ELSE "d"

\* a directory entry: the settings file itself or its sibling "<path>.tmp"
Target(p) == [path |-> p, tmp |-> FALSE]
TempPath(p) == [path |-> p, tmp |-> TRUE]
Names == [path : Paths, tmp : BOOLEAN]

\* ------------------------------------------------- JSON text (token lists)
DumpRecord(r) == <<"{", "id", r.id, "v", r.v, "}">>

RECURSIVE DumpItems(_)
DumpItems(X) ==
  IF Len(X) = 0 THEN <<>>
  ELSE IF Len(X) = 1 THEN DumpRecord(X[1])
  ELSE DumpRecord(X[1]) \o <<",">> \o DumpItems(Tail(X))

\* json.dump(settings, f, indent=4)
DropLastDump(X) == <<"[">> \o DumpItems(IF Len(X) = 0 THEN X ELSE SubSeq(X, 1, Len(X) - 1)) \o <<"]">>
Dump(X) == <<"[">> \o DumpItems(X) \o <<"]">>

\* what a write interrupted by an error leaves in the file
PartialDump(X) == SubSeq(Dump(X), 1, Len(Dump(X)) - 1)

IsRecordAt(s) ==
  /\ Len(s) >= 6
  /\ s[1] = "{" /\ s[2] = "id" /\ s[3] \in Ids
  /\ s[4] = "v" /\ s[5] \in Vals /\ s[6] = "}"

RECURSIVE ParseItems(_)
ParseItems(s) ==
  IF ~IsRecordAt(s) THEN [ok |-> FALSE, val |-> <<>>]
  ELSE LET r == [id |-> s[3], v |-> s[5]]
       IN IF Len(s) = 6 THEN [ok |-> TRUE, val |-> <<r>>]
          ELSE IF s[7] # "," THEN [ok |-> FALSE, val |-> <<>>]
          ELSE LET rest == ParseItems(SubSeq(s, 8, Len(s)))
               IN [ok |-> rest.ok, val |-> IF rest.ok THEN <<r>> \o rest.val ELSE <<>>]

\* json.load(file): ok = FALSE stands for json.JSONDecodeError
Parse(s) ==
  IF Len(s) < 2 \/ s[1] # "[" \/ s[Len(s)] # "]" THEN [ok |-> FALSE, val |-> <<>>]
  ELSE IF Len(s) = 2 THEN [ok |-> TRUE, val |-> <<>>]
  ELSE ParseItems(SubSeq(s, 2, Len(s) - 1))

\* bytes that are not text in the encoding open(path, 'r') decodes with
Undecodable == <<"\\xff">>

\* -------------------------------------------- update / delete list logic
RECURSIVE FirstMatch(_, _, _)
FirstMatch(settings, assistant_id, i) ==
  IF i > Len(settings) THEN 0
  ELSE IF settings[i].id = assistant_id THEN i
  ELSE FirstMatch(settings, assistant_id, i + 1)

\* update_settings lines 179-189: replace the first match in place, else append
AppendAlways(settings, assistant_id, new_settings) == Append(settings, new_settings)
UpdateList(settings, assistant_id, new_settings) ==
  LET i == FirstMatch(settings, assistant_id, 1)
  IN IF i # 0 THEN [settings EXCEPT ![i] = new_settings]
     ELSE Append(settings, new_settings)

\* delete_settings line 207: drop every record with the id
DeleteList(settings, assistant_id) == SelectSeq(settings, LAMBDA s : s.id # assistant_id)

CountId(X, id) == Cardinality({i \in 1..Len(X) : X[i].id = id})
UniqueIds(X) == \A id \in Ids : CountId(X, id) <= 1

\* ----------------------------------------------------------------- state
VARIABLES
  plat,        \* platform.system(): "Unix" (fcntl) or "Windows" (msvcrt)
  faults,      \* how many more I/O errors the environment may still raise
  procOf,      \* thread -> the process it runs in
  script,      \* thread -> for each of its calls in turn, the calls it may be
  clsLock,     \* process -> owner of SettingsManager._lock
  instance,    \* process -> SettingsManager._instance (0 = None, else object id)
  initialized, \* process -> _instance._initialized
  fileLock,    \* process -> _instance._file_lock (0 = attribute not set, else mutex id)
  mutexes,     \* every threading.Lock() made by __init__: [proc, owner]
  dir,         \* directory: name -> inode number (0 = no such file)
  inodes,      \* inode number -> [text, lock]
  th,          \* thread -> its frame: position, arguments and locals
  lastSave     \* path -> the list of the last save installed there, while untouched

vars == <<plat, faults, procOf, script, clsLock, instance, initialized, fileLock,
          mutexes, dir, inodes, th, lastSave>>

MissingFile == <<"ENOENT">>
FileText(name) == IF dir[name] = 0 THEN MissingFile ELSE inodes[dir[name]].text
exists(name) == dir[name] # 0

NoRecord == [id |-> "a", v |-> "1"]
NoSave == [ok |-> FALSE, val |-> <<>>]

\* a thread before its first statement
Frame0 ==
  [pc |-> "start", op |-> "none", self |-> 0,
   settings_path |-> P1, assistant_id |-> "a", new_settings |-> NoRecord,
   settings |-> <<>>, outerM |-> 0, innerM |-> 0, target |-> 0,
   mode |-> "r", retries |-> 0, attempts |-> 0,
   file |-> FALSE, hopen |-> FALSE, hino |-> 0,
   temp_path |-> FALSE, tino |-> 0,
   exc |-> "none", cause |-> "none", ret |-> <<>>,
   calls |-> 0, pre |-> MissingFile]

\* the calls a script may hold
LoadCall(p) ==
  [op |-> "load", settings_path |-> p, assistant_id |-> "a",
   new_settings |-> NoRecord, settings |-> <<>>]
SaveCall(p, X) ==
  [op |-> "save", settings_path |-> p, assistant_id |-> "a",
   new_settings |-> NoRecord, settings |-> X]
UpdateCall(p, id, r) ==
  [op |-> "update", settings_path |-> p, assistant_id |-> id,
   new_settings |-> r, settings |-> <<>>]
DeleteCall(p, id) ==
  [op |-> "delete", settings_path |-> p, assistant_id |-> id,
   new_settings |-> NoRecord, settings |-> <<>>]

R(id, v) == [id |-> id, v |-> v]

\* a file system holding the given store files (path -> text, MissingFile for
\* none) of which those in `held` are locked by a process outside the model
InitFiles(files, held) ==
  LET present == {p \in Paths : files[p] # MissingFile}
      num == CHOOSE f \in [present -> 1..Cardinality(present)] :
               \A p, q \in present : p # q => f[p] # f[q]
  IN /\ dir = [n \in Names |-> IF ~n.tmp /\ n.path \in present THEN num[n.path] ELSE 0]
     /\ inodes = [i \in 1..Cardinality(present) |->
                    LET p == CHOOSE q \in present : num[q] = i
                    IN [text |-> files[p],
                        lock |-> IF p \in held THEN External ELSE Nobody]]

\* the state right after the module is imported: no instance yet; the threads
\* in `live` are about to run, the others never do
InitWith(platforms, budgets, live, procs, scripts, fileSets, held) ==
  /\ plat \in platforms
  /\ faults \in budgets
  /\ procOf = procs
  /\ script = scripts
  /\ clsLock = [pr \in Procs |-> Nobody]
  /\ instance = [pr \in Procs |-> 0]
  /\ initialized = [pr \in Procs |-> FALSE]
  /\ fileLock = [pr \in Procs |-> 0]
  /\ mutexes = <<>>
  /\ \E files \in fileSets : InitFiles(files, held)
  /\ th = [t \in Everyone |-> IF t \in live THEN Frame0 ELSE [Frame0 EXCEPT !.pc = "off"]]
  /\ lastSave = [p \in Paths |-> NoSave]

\* --------------------------------------------------------------- helpers
Pr(t) == procOf[t]
SetFrame(t, r) == th' = [th EXCEPT ![t] = r]

\* an I/O call either works or, while the environment still has faults to
\* spend, raises
Outcomes == IF faults > 0 THEN {"ok", "error"} ELSE {"ok"}
Spend(o) == faults' = IF o = "error" THEN faults - 1 ELSE faults

\* owner of the OS lock of a handle that was never closed
Leaked == -2

SetLock(i, who) == [inodes EXCEPT ![i].lock = who]
SetText(i, text) == [inodes EXCEPT ![i].text = text]
SetOwner(m, who) == [mutexes EXCEPT ![m].owner = who]

\* lines 193-194 and 209-210: the composite operation wraps what load/save raised
Wrapped(op) == IF op = "update" THEN "UpdateError" ELSE "DeleteError"

\* where control goes when load_settings (fn = "load") or save_settings
\* (fn = "save") leaves, with r.exc the exception it raises if any
AfterInner(r, fn) ==
  IF r.op \in {"load", "save"} THEN [r EXCEPT !.pc = "ready"]
  ELSE IF r.exc # "none" THEN [r EXCEPT !.pc = "outer_exit", !.exc = Wrapped(r.op)]
  ELSE IF fn = "load" THEN [r EXCEPT !.pc = "outer_mutate", !.settings = r.ret]
  ELSE [r EXCEPT !.pc = "outer_exit"]

\* ------------------------------------------------------------- singleton
\* line 28: with cls._lock
NewAcquire(t) ==
  /\ th[t].pc = "start"
  /\ clsLock[Pr(t)] = Nobody
  /\ clsLock' = [clsLock EXCEPT ![Pr(t)] = t]
  /\ SetFrame(t, [th[t] EXCEPT !.pc = "new_body"])
  /\ UNCHANGED <<plat, faults, procOf, script, instance, initialized, fileLock,
                 mutexes, dir, inodes, lastSave>>

\* lines 29-32: create the instance if there is none, return it, leave the with
NewBody(t) ==
  /\ th[t].pc = "new_body"
  /\ IF instance[Pr(t)] = 0
     THEN /\ instance' = [instance EXCEPT ![Pr(t)] = 1]
          /\ initialized' = [initialized EXCEPT ![Pr(t)] = FALSE]
          /\ fileLock' = [fileLock EXCEPT ![Pr(t)] = 0]
     ELSE UNCHANGED <<instance, initialized, fileLock>>
  /\ clsLock' = [clsLock EXCEPT ![Pr(t)] = Nobody]
  /\ SetFrame(t, [th[t] EXCEPT !.pc = "init_check", !.self = instance'[Pr(t)]])
  /\ UNCHANGED <<plat, faults, procOf, script, mutexes, dir, inodes, lastSave>>

\* lines 35-36: if self._initialized: return
InitCheck(t) ==
  /\ th[t].pc = "init_check"
  /\ SetFrame(t, [th[t] EXCEPT !.pc = IF initialized[Pr(t)] THEN "ready" ELSE "init_set"])
  /\ UNCHANGED <<plat, faults, procOf, script, clsLock, instance, initialized,
                 fileLock, mutexes, dir, inodes, lastSave>>

\* line 38: self._initialized = True
InitSetInitialized(t) ==
  /\ th[t].pc = "init_set"
  /\ initialized' = [initialized EXCEPT ![Pr(t)] = TRUE]
  /\ SetFrame(t, [th[t] EXCEPT !.pc = "init_lock"])
  /\ UNCHANGED <<plat, faults, procOf, script, clsLock, instance, fileLock,
                 mutexes, dir, inodes, lastSave>>

\* line 39: self._file_lock = threading.Lock()
InitSetFileLock(t) ==
  /\ th[t].pc = "init_lock"
  /\ mutexes' = Append(mutexes, [proc |-> Pr(t), owner |-> Nobody])
  /\ fileLock' = [fileLock EXCEPT ![Pr(t)] = Len(mutexes) + 1]
  /\ SetFrame(t, [th[t] EXCEPT !.pc = "ready"])
  /\ UNCHANGED <<plat, faults, procOf, script, clsLock, instance, initialized,
                 dir, inodes, lastSave>>

\* ------------------------------------------------------ calls and mutex
\* a thread holding the instance calls one of the four public methods
Call(t) ==
  /\ th[t].pc = "ready"
  /\ th[t].calls < Len(script[t])
  /\ \E c \in script[t][th[t].calls + 1] :
       SetFrame(t, [Frame0 EXCEPT
         !.pc = IF c.op \in {"update", "delete"} THEN "outer_eval"
                ELSE IF c.op = "load" THEN "load_eval" ELSE "save_eval",
         !.op = c.op, !.self = th[t].self,
         !.settings_path = c.settings_path, !.assistant_id = c.assistant_id,
         !.new_settings = c.new_settings, !.settings = c.settings,
         !.calls = th[t].calls + 1,
         !.pre = FileText(Target(c.settings_path))])
  /\ UNCHANGED <<plat, faults, procOf, script, clsLock, instance, initialized,
                 fileLock, mutexes, dir, inodes, lastSave>>

\* lines 117, 144, 175, 204: `with self._file_lock` first reads the attribute;
\* a missing attribute raises AttributeError
EvalMutex(t) ==
  /\ th[t].pc \in {"outer_eval", "load_eval", "save_eval"}
  /\ LET r == th[t]
         raised == [r EXCEPT !.exc = "AttributeError", !.cause = "attr"]
     IN SetFrame(t,
          IF fileLock[Pr(t)] = 0
          THEN IF r.pc = "outer_eval" THEN [raised EXCEPT !.pc = "ready"]
               ELSE AfterInner(raised, IF r.pc = "load_eval" THEN "load" ELSE "save")
          ELSE [r EXCEPT !.target = fileLock[Pr(t)],
                         !.pc = IF r.pc = "outer_eval" THEN "outer_acq"
                                ELSE IF r.pc = "load_eval" THEN "load_acq"
                                ELSE "save_acq"])
  /\ UNCHANGED <<plat, faults, procOf, script, clsLock, instance, initialized,
                 fileLock, mutexes, dir, inodes, lastSave>>

\* threading.Lock.acquire(): blocks until the lock object read above is free
AcquireMutex(t) ==
  /\ th[t].pc \in {"outer_acq", "load_acq", "save_acq"}
  /\ mutexes[th[t].target].owner = Nobody
  /\ mutexes' = SetOwner(th[t].target, t)
  /\ LET r == th[t]
     IN SetFrame(t,
          IF r.pc = "outer_acq" THEN [r EXCEPT !.outerM = r.target, !.pc = "load_eval"]
          ELSE IF r.pc = "load_acq" THEN [r EXCEPT !.innerM = r.target, !.pc = "load_exists"]
          ELSE [r EXCEPT !.innerM = r.target, !.pc = "save_mkdirs"])
  /\ UNCHANGED <<plat, faults, procOf, script, clsLock, instance, initialized,
                 fileLock, dir, inodes, lastSave>>

\* ------------------------------------------------------ _acquire_file_lock
\* the exception leaves _acquire_file_lock: load_settings (line 130) has no
\* `file` in its locals and raises; save_settings goes to its handler (159)
LockFailed(r) ==
  IF r.mode = "r"
  THEN [r EXCEPT !.hopen = FALSE, !.exc = "LoadError", !.cause = "lock", !.pc = "load_exit"]
  ELSE [r EXCEPT !.hopen = FALSE, !.cause = "lock", !.pc = "save_handler"]

\* lines 80-86: close the file, give up on the last retry, else count and loop
AcquireRaised(r) ==
  IF r.retries >= MAX_RETRIES - 1 THEN LockFailed(r)
  ELSE [r EXCEPT !.hopen = FALSE, !.retries = r.retries + 1, !.pc = "acq_open"]

\* lines 71-76 and 57, 88: close the file, count, loop while retries < MAX_RETRIES
LockBusy(r) ==
  IF r.retries + 1 < MAX_RETRIES
  THEN [r EXCEPT !.hopen = FALSE, !.retries = r.retries + 1, !.pc = "acq_open"]
  ELSE LockFailed([r EXCEPT !.retries = r.retries + 1])

\* line 60: file = open(file_path, mode); 'w' creates or truncates the file
AcqOpen(t) ==
  /\ th[t].pc = "acq_open"
  /\ \E o \in Outcomes :
       LET r == [th[t] EXCEPT !.attempts = th[t].attempts + 1]
           n == Target(r.settings_path)
       IN /\ Spend(o)
          /\ IF o = "error" \/ (r.mode = "r" /\ ~exists(n))
             THEN /\ SetFrame(t, AcquireRaised(r))
                  /\ UNCHANGED <<dir, inodes, lastSave>>
             ELSE IF r.mode = "r"
             THEN /\ SetFrame(t, [r EXCEPT !.hopen = TRUE, !.hino = dir[n], !.pc = "acq_lock"])
                  /\ UNCHANGED <<dir, inodes, lastSave>>
             ELSE IF exists(n)
             THEN /\ inodes' = SetText(dir[n], <<>>)
                  /\ lastSave' = [p \in Paths |->
                       IF dir[Target(p)] = dir[n] THEN NoSave ELSE lastSave[p]]
                  /\ SetFrame(t, [r EXCEPT !.hopen = TRUE, !.hino = dir[n], !.pc = "acq_lock"])
                  /\ UNCHANGED dir
             ELSE /\ inodes' = Append(inodes, [text |-> <<>>, lock |-> Nobody])
                  /\ dir' = [dir EXCEPT ![n] = Len(inodes) + 1]
                  /\ lastSave' = [lastSave EXCEPT ![r.settings_path] = NoSave]
                  /\ SetFrame(t, [r EXCEPT !.hopen = TRUE, !.hino = Len(inodes) + 1,
                                           !.pc = "acq_lock"])
  /\ UNCHANGED <<plat, procOf, script, clsLock, instance, initialized, fileLock, mutexes>>

\* _acquire_file_lock returns (file, fd) to load_settings or save_settings
Locked(r) ==
  [r EXCEPT !.file = TRUE, !.pc = IF r.mode = "r" THEN "load_read" ELSE "save_replace"]

\* lines 64-78: fcntl.flock(fd, LOCK_EX) waits for the lock; msvcrt.locking
\* with LK_NBLCK fails at once when the lock is taken
AcqLock(t) ==
  /\ th[t].pc = "acq_lock"
  /\ \E o \in Outcomes :
       LET r == th[t]
           free == inodes[r.hino].lock = Nobody
       IN /\ Spend(o)
          /\ IF plat = "Unix"
             THEN IF o = "ok"
                  THEN /\ free
                       /\ inodes' = SetLock(r.hino, t)
                       /\ SetFrame(t, Locked(r))
                  ELSE /\ SetFrame(t, AcquireRaised(r))
                       /\ UNCHANGED inodes
             ELSE IF o = "ok" /\ free
                  THEN /\ inodes' = SetLock(r.hino, t)
                       /\ SetFrame(t, Locked(r))
                  ELSE /\ SetFrame(t, LockBusy(r))
                       /\ UNCHANGED inodes
  /\ UNCHANGED <<plat, procOf, script, clsLock, instance, initialized, fileLock,
                 mutexes, dir, lastSave>>

\* ------------------------------------------------------ _release_file_lock
\* lines 98-105: unlock, then close; an error of the unlock is printed and the
\* close is skipped.  Called on lines 124, 128, 132, 157 and 161.
ReleaseFileLock(t) ==
  /\ IF th[t].pc = "save_handler" THEN th[t].file
     ELSE th[t].pc \in {"load_release", "save_release"}
  /\ \E o \in Outcomes :
       LET r == th[t]
           next == IF r.pc = "load_release" THEN "load_exit"
                   ELSE IF r.pc = "save_release" THEN "save_exit"
                   ELSE "save_cleanup"
       IN /\ Spend(o)
          /\ IF o = "ok"
             THEN /\ inodes' = IF inodes[r.hino].lock = t
                               THEN SetLock(r.hino, Nobody) ELSE inodes
                  /\ SetFrame(t, [r EXCEPT !.hopen = FALSE, !.pc = next])
             ELSE /\ SetFrame(t, [r EXCEPT !.pc = next])
                  /\ UNCHANGED inodes
  /\ UNCHANGED <<plat, procOf, script, clsLock, instance, initialized, fileLock,
                 mutexes, dir, lastSave>>

\* ------------------------------------------------------------ load_settings
\* lines 118-119: if not os.path.exists(settings_path): return []
LoadAlwaysOpens(t) ==
  /\ th[t].pc = "load_exists"
  /\ SetFrame(t, [th[t] EXCEPT !.mode = "r", !.retries = 0, !.attempts = 0, !.pc = "acq_open"])
  /\ UNCHANGED <<plat, faults, procOf, script, clsLock, instance, initialized,
                 fileLock, mutexes, dir, inodes, lastSave>>
LoadExists(t) ==
  /\ th[t].pc = "load_exists"
  /\ LET r == th[t]
     IN SetFrame(t,
          IF ~exists(Target(r.settings_path))
          THEN [r EXCEPT !.ret = <<>>, !.pc = "load_exit"]
          ELSE [r EXCEPT !.mode = "r", !.retries = 0, !.attempts = 0, !.pc = "acq_open"])
  /\ UNCHANGED <<plat, faults, procOf, script, clsLock, instance, initialized,
                 fileLock, mutexes, dir, inodes, lastSave>>

\* line 123: settings = json.load(file); JSONDecodeError gives [] (126-129),
\* any other error, the UnicodeDecodeError of file.read() on bytes that are
\* not text included, is raised as "Failed to load settings" (130-133)
LoadRead(t) ==
  /\ th[t].pc = "load_read"
  /\ \E o \in Outcomes :
       LET r == th[t]
           parsed == Parse(inodes[r.hino].text)
       IN /\ Spend(o)
          /\ SetFrame(t,
               IF o = "error"
               THEN [r EXCEPT !.exc = "LoadError", !.cause = "read", !.pc = "load_release"]
               ELSE IF inodes[r.hino].text = Undecodable
               THEN [r EXCEPT !.exc = "LoadError", !.cause = "decode", !.pc = "load_release"]
               ELSE [r EXCEPT !.ret = IF parsed.ok THEN parsed.val ELSE <<>>,
                              !.pc = "load_release"])
  /\ UNCHANGED <<plat, procOf, script, clsLock, instance, initialized, fileLock,
                 mutexes, dir, inodes, lastSave>>

\* ------------------------------------------------------------ save_settings
\* line 147: os.makedirs(os.path.dirname(settings_path), exist_ok=True);
\* os.makedirs("") raises FileNotFoundError
SaveMakedirs(t) ==
  /\ th[t].pc = "save_mkdirs"
  /\ \E o \in Outcomes :
       LET r == th[t]
       IN /\ Spend(o)
          /\ SetFrame(t,
               IF o = "error" \/ dirname(r.settings_path) = ""
               THEN [r EXCEPT !.cause = "makedirs", !.pc = "save_handler"]
               ELSE [r EXCEPT !.temp_path = TRUE, !.pc = "save_tmp_open"])
  /\ UNCHANGED <<plat, procOf, script, clsLock, instance, initialized, fileLock,
                 mutexes, dir, inodes, lastSave>>

\* lines 150-151: temp_path = f"{settings_path}.tmp"; open(temp_path, 'w')
SaveTempOpen(t) ==
  /\ th[t].pc = "save_tmp_open"
  /\ \E o \in Outcomes :
       LET r == th[t]
           n == TempPath(r.settings_path)
       IN /\ Spend(o)
          /\ IF o = "error"
             THEN /\ SetFrame(t, [r EXCEPT !.cause = "tmp_open", !.pc = "save_handler"])
                  /\ UNCHANGED <<dir, inodes, lastSave>>
             ELSE IF exists(n)
             THEN /\ inodes' = SetText(dir[n], <<>>)
                  /\ lastSave' = [p \in Paths |->
                       IF dir[Target(p)] = dir[n] THEN NoSave ELSE lastSave[p]]
                  /\ SetFrame(t, [r EXCEPT !.tino = dir[n], !.pc = "save_tmp_write"])
                  /\ UNCHANGED dir
             ELSE /\ inodes' = Append(inodes, [text |-> <<>>, lock |-> Nobody])
                  /\ dir' = [dir EXCEPT ![n] = Len(inodes) + 1]
                  /\ SetFrame(t, [r EXCEPT !.tino = Len(inodes) + 1, !.pc = "save_tmp_write"])
                  /\ UNCHANGED lastSave
  /\ UNCHANGED <<plat, procOf, script, clsLock, instance, initialized, fileLock, mutexes>>

\* lines 151-152: json.dump(settings, f, indent=4) and the close of the with;
\* an error part-way leaves a truncated text in the temporary file
SaveTempWrite(t) ==
  /\ th[t].pc = "save_tmp_write"
  /\ \E o \in Outcomes :
       LET r == th[t]
       IN /\ Spend(o)
          /\ inodes' = SetText(r.tino, IF o = "ok" THEN Dump(r.settings)
                                       ELSE PartialDump(r.settings))
          /\ lastSave' = [p \in Paths |->
               IF dir[Target(p)] = r.tino THEN NoSave ELSE lastSave[p]]
          /\ SetFrame(t,
               IF o = "ok"
               THEN [r EXCEPT !.tino = 0, !.mode = "w", !.retries = 0, !.attempts = 0,
                              !.pc = "acq_open"]
               ELSE [r EXCEPT !.tino = 0, !.cause = "tmp_write", !.pc = "save_handler"])
  /\ UNCHANGED <<plat, procOf, script, clsLock, instance, initialized, fileLock,
                 mutexes, dir>>

\* line 156: os.replace(temp_path, settings_path)
Replace(d, p) == [d EXCEPT ![Target(p)] = d[TempPath(p)], ![TempPath(p)] = 0]

SaveReplace(t) ==
  /\ th[t].pc = "save_replace"
  /\ \E o \in Outcomes :
       LET r == th[t]
           p == r.settings_path
       IN /\ Spend(o)
          /\ IF o = "ok" /\ exists(TempPath(p))
             THEN /\ dir' = Replace(dir, p)
                  /\ lastSave' = [lastSave EXCEPT ![p] = [ok |-> TRUE, val |-> r.settings]]
                  /\ SetFrame(t, [r EXCEPT !.pc = "save_release"])
             ELSE /\ SetFrame(t, [r EXCEPT !.cause = "replace", !.pc = "save_handler"])
                  /\ UNCHANGED <<dir, lastSave>>
  /\ UNCHANGED <<plat, procOf, script, clsLock, instance, initialized, fileLock,
                 mutexes, inodes>>

\* lines 162-164: if os.path.exists(temp_path): os.remove(temp_path); raise.
\* After a failed makedirs temp_path is unbound and line 162 itself raises.
SaveCleanup(t) ==
  /\ IF th[t].pc = "save_handler" THEN ~th[t].file ELSE th[t].pc = "save_cleanup"
  /\ \E o \in Outcomes :
       LET r == th[t]
           n == TempPath(r.settings_path)
       IN /\ Spend(o)
          /\ IF ~r.temp_path
             THEN /\ o = "ok"
                  /\ SetFrame(t, [r EXCEPT !.exc = "UnboundLocalError", !.pc = "save_exit"])
                  /\ UNCHANGED dir
             ELSE IF ~exists(n)
             THEN /\ o = "ok"
                  /\ SetFrame(t, [r EXCEPT !.exc = "SaveError", !.pc = "save_exit"])
                  /\ UNCHANGED dir
             ELSE IF o = "ok"
             THEN /\ dir' = [dir EXCEPT ![n] = 0]
                  /\ SetFrame(t, [r EXCEPT !.exc = "SaveError", !.pc = "save_exit"])
             ELSE /\ SetFrame(t, [r EXCEPT !.exc = "OSError", !.pc = "save_exit"])
                  /\ UNCHANGED dir
  /\ UNCHANGED <<plat, procOf, script, clsLock, instance, initialized, fileLock,
                 mutexes, inodes, lastSave>>

\* ------------------------------------------------- leaving load and save
\* the end of `with self._file_lock` in load_settings and save_settings and the
\* return to the caller.  A handle that _release_file_lock did not close dies
\* with the frame: the runtime may close it now (the lock goes with it) or not.
InnerExit(t) ==
  /\ th[t].pc \in {"load_exit", "save_exit"}
  /\ \E closed \in (IF th[t].hopen THEN BOOLEAN ELSE {TRUE}) :
       LET r == th[t]
           fn == IF r.pc = "load_exit" THEN "load" ELSE "save"
       IN /\ mutexes' = SetOwner(r.innerM, Nobody)
          /\ inodes' = IF r.hopen /\ inodes[r.hino].lock = t
                       THEN SetLock(r.hino, IF closed THEN Nobody ELSE Leaked)
                       ELSE inodes
          /\ SetFrame(t, AfterInner([r EXCEPT !.innerM = 0, !.target = 0, !.file = FALSE,
                                              !.hopen = FALSE, !.hino = 0,
                                              !.temp_path = FALSE], fn))
  /\ UNCHANGED <<plat, faults, procOf, script, clsLock, instance, initialized,
                 fileLock, dir, lastSave>>

\* ------------------------------------------- update_settings / delete_settings
\* lines 179-189 (update) and 207 (delete), then the call of save_settings
OuterMutate(t) ==
  /\ th[t].pc = "outer_mutate"
  /\ LET r == th[t]
     IN SetFrame(t, [r EXCEPT
          !.settings = IF r.op = "update"
                       THEN UpdateList(r.settings, r.assistant_id, r.new_settings)
                       ELSE DeleteList(r.settings, r.assistant_id),
          !.pc = "save_eval"])
  /\ UNCHANGED <<plat, faults, procOf, script, clsLock, instance, initialized,
                 fileLock, mutexes, dir, inodes, lastSave>>

\* the end of `with self._file_lock` in update_settings and delete_settings
OuterExit(t) ==
  /\ th[t].pc = "outer_exit"
  /\ mutexes' = SetOwner(th[t].outerM, Nobody)
  /\ SetFrame(t, [th[t] EXCEPT !.outerM = 0, !.pc = "ready"])
  /\ UNCHANGED <<plat, faults, procOf, script, clsLock, instance, initialized,
                 fileLock, dir, inodes, lastSave>>

\* ------------------------------------------------------------------ next
Step(t) ==
  \/ NewAcquire(t) \/ NewBody(t) \/ InitCheck(t) \/ InitSetInitialized(t)
  \/ InitSetFileLock(t) \/ Call(t) \/ EvalMutex(t) \/ AcquireMutex(t)
  \/ LoadExists(t) \/ AcqOpen(t) \/ AcqLock(t) \/ LoadRead(t) \/ ReleaseFileLock(t)
  \/ SaveMakedirs(t) \/ SaveTempOpen(t) \/ SaveTempWrite(t) \/ SaveReplace(t)
  \/ SaveCleanup(t) \/ InnerExit(t) \/ OuterMutate(t) \/ OuterExit(t)

Next == \E t \in Everyone : Step(t)

\* the scheduler runs every thread that can run
Fairness == \A t \in Everyone : WF_vars(Step(t))

\* ------------------------------------------------------------- scenarios
OneProcess == [t \in Everyone |-> 1]
NoFiles == [p \in Paths |-> MissingFile]

\* threads of one process construct the manager and call any method, on two
\* store files and on a bare file name
AnyCalls ==
  {LoadCall(P1), LoadCall(P2),
   SaveCall(P1, <<R("a", "1")>>), SaveCall(P2, <<R("b", "2")>>), SaveCall(PBare, <<>>),
   UpdateCall(P1, "b", R("b", "2")), DeleteCall(P1, "a")}

Init ==
  InitWith({"Unix", "Windows"}, {0}, Threads, OneProcess,
           [t \in Everyone |-> IF t \in Threads THEN [i \in 1..RaceCalls |-> AnyCalls] ELSE <<>>],
           {NoFiles}, {})

Spec == Init /\ [][Next]_vars

\* one thread calls the methods one after the other while another thread of
\* the process is still constructing the manager; the environment may raise
\* an I/O error
Caller == CHOOSE t \in Threads : \A u \in Threads : t <= u
\* a second thread, still in its first SettingsManager()
Racer == CHOOSE t \in Threads \ {Caller} : \A u \in Threads \ {Caller} : t <= u
OnlyP1(text) == [p \in Paths |-> IF p = P1 THEN text ELSE MissingFile]
Old == <<R("a", "1")>>

New == <<R("a", "2"), R("b", "1")>>

IOCalls ==
  {LoadCall(P1), SaveCall(PBare, <<>>), UpdateCall(P1, "a", R("a", "2")), DeleteCall(P1, "a"),
   SaveCall(P1, <<>>), SaveCall(P1, Old), SaveCall(P1, New)}

\* the caller makes the calls of `calls` in turn, the other threads make none
CallerScript(calls) == [t \in Everyone |-> IF t = Caller THEN calls ELSE <<>>]

IOInit ==
  InitWith({"Unix", "Windows"}, {MaxFaults}, {Caller, Racer}, OneProcess,
           CallerScript([i \in 1..MaxCalls |-> IOCalls]),
           {NoFiles, OnlyP1(Dump(Old)), OnlyP1(<<>>)}, {})

IOSpec == IOInit /\ [][Next]_vars

FairIOSpec == IOInit /\ [][Next]_vars /\ Fairness

\* the same, with the store file P1 locked by another process from start to
\* end and P2 free
LockedCalls ==
  {LoadCall(P1), SaveCall(P1, New), LoadCall(P2), SaveCall(P2, Old),
   UpdateCall(P2, "a", R("a", "2"))}

LockedInit ==
  InitWith({"Unix", "Windows"}, {MaxFaults}, {Caller, Racer}, OneProcess,
           CallerScript([i \in 1..MaxCalls |-> LockedCalls]),
           {OnlyP1(Dump(Old))}, {P1})

FairLockedSpec == LockedInit /\ [][Next]_vars /\ Fairness

\* the caller saves any list (or updates) and then loads
SaveCalls ==
  {SaveCall(P1, X) : X \in Lists} \cup {SaveCall(PBare, Old), UpdateCall(P1, "a", R("a", "2"))}
LoadCalls == {LoadCall(P1), LoadCall(PBare)}

RoundTripInit ==
  InitWith({"Unix", "Windows"}, {MaxFaults}, {Caller, Racer}, OneProcess,
           CallerScript(<<SaveCalls, LoadCalls>>),
           {NoFiles, OnlyP1(Dump(Old))}, {})

RoundTripSpec == RoundTripInit /\ [][Next]_vars

\* the caller updates or deletes once, with any id and record, on any store
DataCalls ==
  {UpdateCall(P1, id, r) : id \in Ids, r \in Records} \cup {DeleteCall(P1, id) : id \in Ids}

DataInit ==
  InitWith({"Unix", "Windows"}, {MaxFaults}, {Caller, Racer}, OneProcess,
           CallerScript(<<DataCalls>>),
           {NoFiles} \cup {OnlyP1(Dump(X)) : X \in Lists}, {})

DataSpec == DataInit /\ [][Next]_vars

FairDataSpec == DataInit /\ [][Next]_vars /\ Fairness

\* the caller deletes twice, either id each time, on any store
DeleteCalls == {DeleteCall(P1, id) : id \in Ids}

TwiceInit ==
  InitWith({"Unix", "Windows"}, {MaxFaults}, {Caller, Racer}, OneProcess,
           CallerScript(<<DeleteCalls, DeleteCalls>>),
           {NoFiles} \cup {OnlyP1(Dump(X)) : X \in Lists}, {})

FairTwiceSpec == TwiceInit /\ [][Next]_vars /\ Fairness

\* the caller loads store files that are missing, well-formed, empty, cut
\* short or not text, and saves and updates
LoadTexts == {Dump(Old), <<>>, PartialDump(New), Undecodable}
ProbeCalls ==
  {LoadCall(P1), LoadCall(P2), SaveCall(P1, Old), UpdateCall(P1, "a", R("a", "2"))}

LoadInit ==
  InitWith({"Unix", "Windows"}, {MaxFaults}, {Caller, Racer}, OneProcess,
           CallerScript([i \in 1..MaxCalls |-> ProbeCalls]),
           {NoFiles} \cup {OnlyP1(text) : text \in LoadTexts}, {})

LoadSpec == LoadInit /\ [][Next]_vars

\* every thread calls update_settings once, each with an id of its own, on a
\* store file that is missing or holds the empty list
IdSeq == <<"a", "b">>
Writers == {t \in Threads : t <= Len(IdSeq)}
Payload(t) == R(IdSeq[t], "1")

UpdateInit ==
  InitWith({"Unix", "Windows"}, {MaxFaults}, Threads, OneProcess,
           [t \in Everyone |->
              IF t \in Writers THEN <<{UpdateCall(P1, IdSeq[t], Payload(t))}>> ELSE <<>>],
           {NoFiles, OnlyP1(Dump(<<>>))}, {})

UpdateSpec == UpdateInit /\ [][Next]_vars

\* two processes, each with its own manager, use the store file P1: the peer
\* saves New while the caller, in the other process, saves Other, loads or
\* updates; the environment raises no I/O error
TwoProcesses == [t \in Everyone |-> IF t = Peer THEN 2 ELSE 1]
Other == <<R("b", "2")>>
CrossCalls == {SaveCall(P1, Other), LoadCall(P1), UpdateCall(P1, "a", R("a", "2"))}

CrossInit ==
  InitWith({"Unix", "Windows"}, {0}, {Caller, Racer, Peer}, TwoProcesses,
           [t \in Everyone |-> IF t = Caller THEN <<CrossCalls>>
                               ELSE IF t = Peer THEN <<{SaveCall(P1, New)}>>
                               ELSE <<>>],
           {NoFiles, OnlyP1(Dump(Old))}, {})

CrossSpec == CrossInit /\ [][Next]_vars

\* ------------------------------------------------------------ vocabulary
SameProcess(t, u) == Pr(t) = Pr(u)

\* t is inside the body of a `with self._file_lock` of a public method
InBody(t) == th[t].innerM # 0 \/ th[t].outerM # 0

\* t holds the mutex that self._file_lock names now
HoldsProcessMutex(t) ==
  /\ fileLock[Pr(t)] # 0
  /\ mutexes[fileLock[Pr(t)]].owner = t

\* t is in update_settings, anywhere from its call of load_settings to the
\* return of its save_settings
InUpdateSection(t) ==
  /\ th[t].op = "update"
  /\ th[t].outerM # 0
  /\ th[t].pc # "outer_exit"

\* the threading.Lock objects ever assigned to the instance of process pr
MutexesOf(pr) == {k \in 1..Len(mutexes) : mutexes[k].proc = pr}

\* t came back from the constructor
Constructed(t) == th[t].pc \notin {"off", "start", "new_body", "init_check", "init_set", "init_lock"}

\* --------------------------------------------------------------- claims
\* C3: update_settings runs its load, mutation and save as one critical
\* section: from the start of the load to the end of the save the calling
\* thread holds the process mutex and no other thread of the process is
\* inside the body of an operation.
C3_UpdateOneCriticalSection ==
  \A t \in Threads :
    InUpdateSection(t) =>
      /\ HoldsProcessMutex(t)
      /\ \A u \in Threads \ {t} : SameProcess(t, u) => ~InBody(u)

\* C4: at most one thread of a process is inside the mutex-protected body of
\* a public operation, whatever the paths.
C4_MutualExclusion ==
  \A t, u \in Threads :
    (t # u /\ SameProcess(t, u)) => ~(InBody(t) /\ InBody(u))

\* C5: under concurrent first use every thread gets the same instance, the
\* operation mutex is assigned exactly once and never replaced, and no thread
\* holds the instance as initialized while its mutex does not exist.
C5_InitializedOnce ==
  /\ \A t, u \in Threads :
       (Constructed(t) /\ Constructed(u) /\ SameProcess(t, u)) => th[t].self = th[u].self
  /\ \A pr \in Procs : Cardinality(MutexesOf(pr)) <= 1
  /\ \A t \in Threads : Constructed(t) => fileLock[Pr(t)] # 0

\* t is inside a call of a public method
InCall(t) == Constructed(t) /\ th[t].pc # "ready"

\* t made all its calls and is back from the last
Finished(t) == th[t].pc = "ready" /\ th[t].calls = Len(script[t])

\* the environment raised no I/O error so far
NoFault == faults = MaxFaults

\* C1: N threads each call update_settings once, with distinct ids, on a store
\* that is missing or empty: every call completes, and once all have returned
\* the store file holds exactly N records, one per thread, each the payload
\* its thread wrote.
C1_NoLostUpdate ==
  NoFault =>
    /\ (\A t \in Threads : Finished(t) /\ th[t].exc = "none") \/ ENABLED Next
    /\ (\A t \in Threads : Finished(t)) =>
         LET stored == Parse(FileText(Target(P1)))
         IN /\ stored.ok
            /\ Len(stored.val) = Cardinality(Writers)
            /\ \A t \in Writers : \E i \in 1..Len(stored.val) : stored.val[i] = Payload(t)

\* C2: every call of a public method made while no other process holds the
\* file lock eventually returns or fails; update_settings and delete_settings,
\* which take the mutex and then call load_settings and save_settings, do not
\* block forever.
C2_EveryCallCompletes == \A t \in Threads : InCall(t) ~> ~InCall(t)

\* t is back from a call of op
Returned(t, op) == th[t].pc = "ready" /\ th[t].op = op

\* the stages of save_settings that can fail (lines 147-157)
SaveStages == {"makedirs", "tmp_open", "tmp_write", "lock", "replace"}

\* save_settings called by t failed at one of its stages
SaveFailed(t) == Returned(t, "save") /\ th[t].exc # "none" /\ th[t].cause \in SaveStages

\* C6: after save_settings fails at any stage the target is not half-written:
\* its content is what it was before the call or the complete new list, and a
\* target that did not exist is not left behind empty or partial.
C6_TargetNeverHalfWritten ==
  \A t \in Threads :
    SaveFailed(t) =>
      FileText(Target(th[t].settings_path)) \in {th[t].pre, Dump(th[t].settings)}

\* t holds no OS file lock and no open locked handle
HoldsNoFileLock(t) ==
  /\ ~th[t].hopen
  /\ \A i \in 1..Len(inodes) : inodes[i].lock \notin {t, Leaked}

\* C7: when save_settings fails at any stage, the failure of os.makedirs
\* included, it has released the file lock, the temporary file is gone, and
\* the error is the save error wrapping the cause.
C7_SaveFailureCleansUp ==
  \A t \in Threads :
    SaveFailed(t) =>
      /\ HoldsNoFileLock(t)
      /\ ~exists(TempPath(th[t].settings_path))
      /\ th[t].exc = "SaveError"

\* t is inside _acquire_file_lock
InAcquire(t) == th[t].pc \in {"acq_open", "acq_lock"}

\* the OS lock of the store file at p is held by a process outside the model
HeldOutside(p) == exists(Target(p)) /\ inodes[dir[Target(p)]].lock = External

\* C8: with the OS lock held by another process for the whole call, lock
\* acquisition makes at most 5 attempts and then fails with the lock error,
\* on the msvcrt branch and on the fcntl.flock branch alike.
C8_LockAcquisitionBounded ==
  \A t \in Threads :
    /\ [](th[t].attempts <= MAX_RETRIES)
    /\ (InAcquire(t) /\ HeldOutside(th[t].settings_path))
         ~> (~InAcquire(t) /\ th[t].cause = "lock" /\ th[t].attempts = MAX_RETRIES)

StoreList(text) == IF Parse(text).ok THEN Parse(text).val ELSE <<>>

\* update_settings or delete_settings called by t returned without error
Modified(t) == (Returned(t, "update") \/ Returned(t, "delete")) /\ th[t].exc = "none"

\* C10 as claimed: after any successful update_settings or delete_settings the
\* store file holds at most one record per id, whatever the file held before
\* and whatever the arguments.
C10_AtMostOnePerId ==
  \A t \in Threads :
    Modified(t) => UniqueIds(StoreList(FileText(Target(th[t].settings_path))))

\* C10 amended: it holds when the store held at most one record per id before
\* the call and, for update_settings, new_settings carries the id argument.
C10_UniqueIdsPreserved ==
  \A t \in Threads :
    (/\ Modified(t)
     /\ UniqueIds(StoreList(th[t].pre))
     /\ th[t].op = "update" => th[t].new_settings.id = th[t].assistant_id)
      => /\ Parse(FileText(Target(th[t].settings_path))).ok
         /\ UniqueIds(StoreList(FileText(Target(th[t].settings_path))))

C10_Witness ==
  \E t \in Threads :
    /\ Returned(t, "update") /\ th[t].exc = "none"
    /\ Len(StoreList(th[t].pre)) = 2 /\ UniqueIds(StoreList(th[t].pre))
    /\ th[t].new_settings.id = th[t].assistant_id
    /\ th[t].new_settings \notin {StoreList(th[t].pre)[i] : i \in 1..2}
    /\ StoreList(FileText(Target(th[t].settings_path)))[1] = th[t].new_settings

\* every thread is back from SettingsManager(): the instance and its mutex
\* no longer change
Quiet == \A u \in Everyone : th[u].pc = "off" \/ Constructed(u)

\* t has just called op, on a fully constructed manager
Entered(t, op) == th[t].pc = "outer_eval" /\ th[t].op = op /\ Quiet

\* the list the store file of t's call held when t called
Before(t) == StoreList(th[t].pre)

\* the list the store file of t's call holds now
Stored(t) == StoreList(FileText(Target(th[t].settings_path)))

\* t's call came back without error and left a well-formed store file
Done(t, op) ==
  /\ Returned(t, op) /\ th[t].exc = "none"
  /\ Parse(FileText(Target(th[t].settings_path))).ok

\* C11: update_settings(p, id, R2) on a store whose first record with that id
\* is at position i leads to a store of the same length, with R2 at position
\* i and every other position as before (unless the environment raised an
\* I/O error).
C11_UpdateInPlace ==
  \A t \in Threads :
    (Entered(t, "update") /\ FirstMatch(Before(t), th[t].assistant_id, 1) # 0)
      ~> \/ ~NoFault
         \/ /\ Done(t, "update")
            /\ Stored(t) = [Before(t) EXCEPT
                 ![FirstMatch(Before(t), th[t].assistant_id, 1)] = th[t].new_settings]

\* C12: update_settings(p, id, R) on a store with no record of that id, a
\* missing file included, leads to a store of the original records in their
\* order followed by R (unless the environment raised an I/O error).
C12_UpdateAppends ==
  \A t \in Threads :
    (Entered(t, "update") /\ CountId(Before(t), th[t].assistant_id) = 0)
      ~> \/ ~NoFault
         \/ /\ Done(t, "update")
            /\ Len(Stored(t)) = Len(Before(t)) + 1
            /\ SubSeq(Stored(t), 1, Len(Before(t))) = Before(t)
            /\ Stored(t)[Len(Stored(t))] = th[t].new_settings

\* C13: delete_settings(p, id) leads to a store with no record of that id,
\* every match removed, that holds every other record of the original store
\* in the original relative order (unless the environment raised an I/O
\* error).
C13_DeleteRemovesAll ==
  \A t \in Threads :
    Entered(t, "delete")
      ~> \/ ~NoFault
         \/ /\ Done(t, "delete")
            /\ CountId(Stored(t), th[t].assistant_id) = 0
            /\ Stored(t) = SelectSeq(Before(t), LAMBDA s : s.id # th[t].assistant_id)

\* C14: delete_settings is idempotent: called on a store that holds no record
\* of the id, which is what a first delete_settings of that id leaves, it
\* succeeds without error and leaves the record list as it was (unless the
\* environment raised an I/O error).
C14_DeleteIdempotent ==
  \A t \in Threads :
    (Entered(t, "delete") /\ CountId(Before(t), th[t].assistant_id) = 0)
      ~> \/ ~NoFault
         \/ (Done(t, "delete") /\ Stored(t) = Before(t))

\* t is back from load_settings, which found self._file_lock in place
Loaded(t) == Returned(t, "load") /\ th[t].cause # "attr"

\* C15: load_settings on a path that does not exist returns the empty list,
\* raises no error, acquires no OS file lock (it opens nothing) and does not
\* create the file.
C15_LoadMissing ==
  \A t \in Threads :
    (Loaded(t) /\ th[t].pre = MissingFile)
      => /\ th[t].ret = <<>>
         /\ th[t].exc = "none"
         /\ th[t].attempts = 0
         /\ ~th[t].hopen
         /\ \A i \in 1..Len(inodes) : inodes[i].lock # t
         /\ ~exists(Target(th[t].settings_path))

C15_Witness ==
  \E t \in Threads :
    /\ Loaded(t) /\ th[t].pre = MissingFile
    /\ th[t].ret = <<>> /\ th[t].exc = "none"
    /\ th[t].calls = MaxCalls
    /\ \E p \in Paths : exists(Target(p))

\* C16: load_settings on an existing file whose content is not valid JSON
\* returns the empty list without raising, has released the file lock it
\* took, and leaves the file content as it was (the environment raising no
\* I/O error).
C16_LoadInvalid ==
  \A t \in Threads :
    (Loaded(t) /\ NoFault /\ th[t].pre # MissingFile /\ ~Parse(th[t].pre).ok)
      => /\ th[t].ret = <<>>
         /\ th[t].exc = "none"
         /\ HoldsNoFileLock(t)
         /\ FileText(Target(th[t].settings_path)) = th[t].pre

\* t is past a call of _release_file_lock(file, fd) and still in the method
\* that made it
Released(t) == th[t].file /\ th[t].pc \in {"load_exit", "save_exit", "save_cleanup"}

\* C17: after _release_file_lock returns the handle is closed, whether or
\* not the unlock step failed, and the call raises nothing: the exception the
\* caller has in flight is the one it had.
C17_ReleaseAlwaysCloses ==
  /\ [](\A t \in Threads : Released(t) => ~th[t].hopen)
  /\ [][\A t \in Threads : (~Released(t) /\ Released(t)') => th[t].exc' = th[t].exc]_vars

\* t holds an OS file lock or an open handle of a store file
HoldsFile(t) == th[t].hopen \/ \E i \in 1..Len(inodes) : inodes[i].lock = t

\* C18: the process mutex is taken before the OS file lock and released after
\* it, and neither outlives the operation: a thread that holds an OS file
\* lock or an open locked handle holds the process mutex, and a thread that is
\* back from an operation, on any exit path, holds no file lock and no mutex.
C18_LockOrdering ==
  \A t \in Threads :
    /\ HoldsFile(t) => HoldsProcessMutex(t)
    /\ th[t].pc = "ready" =>
         /\ HoldsNoFileLock(t)
         /\ \A k \in 1..Len(mutexes) : mutexes[k].owner # t

\* t is back from op, which found self._file_lock in place
Back(t, op) == Returned(t, op) /\ th[t].cause # "attr"

\* C19: two processes save lists X and Y to one path at the same time: both
\* calls succeed and, once both are back, the store file holds exactly X or
\* exactly Y; the temporary file they share causes no failed save and no
\* partial content.
C19_ConcurrentSaves ==
  (Back(Caller, "save") /\ Back(Peer, "save"))
    => /\ th[Caller].exc = "none"
       /\ th[Peer].exc = "none"
       /\ FileText(Target(P1)) \in {Dump(th[Caller].settings), Dump(th[Peer].settings)}

\* C20: a load in one process, while another process saves New over a store
\* file holding the valid list Old, returns exactly Old or exactly New, never
\* the empty list or a part.
C20_LoadDuringSave ==
  (/\ Back(Caller, "load") /\ th[Caller].exc = "none"
   /\ th[Caller].pre = Dump(Old)
   /\ th[Peer].op = "save")
    => th[Caller].ret \in {Old, th[Peer].settings}
====
